---------------------------- MODULE Spec2Model ----------------------------
(***************************************************************************)
(* A model of the Sudoku solver of src/solver.py: the grid and its three  *)
(* views (rows, columns, groups), the validity and filled predicates, the *)
(* candidate analysis get_possible_values, the propagation loop           *)
(* solve_single_position and the recursive search solve().  The recursion *)
(* of solve() is modelled by an explicit stack of frames, one per active  *)
(* call; each frame owns its own grid, as each Sudoku object does.        *)
(***************************************************************************)
EXTENDS Integers, Sequences, FiniteSets, TLC

(***************************************************************************)
(* Program constants.                                                      *)
(***************************************************************************)
\* range(9): the side of the grid
Size == 9
\* range(3): the side of a group
GroupSize == 3
\* min(..., default=20): the "no cell has options" sentinel of solve()
NoOptions == 20

Idx == 0 .. (Size - 1)
Sub == 0 .. (GroupSize - 1)

\* numbers = set(i for i in range(1, 10))
numbers == 1 .. Size

\* old_fields = None
None == << >>

(***************************************************************************)
(* Grids are functions Idx -> Idx -> 0..9, indexed from 0 as in the code.  *)
(* FromRows turns a literal written as a tuple of rows into a grid.        *)
(***************************************************************************)
FromRows(lit) == [r \in Idx |-> [c \in Idx |-> lit[r + 1][c + 1]]]

\* group_coordinate_to_row_coordinate with the column offset 3 * (group % 3)
\* written as group % 3
coordinate_without_scale(group, i) ==
    << (i \div 3) + (group - (group % 3)), (i % 3) + (group % 3) >>

\* def group_coordinate_to_row_coordinate(group, i)
group_coordinate_to_row_coordinate(group, i) ==
    << (i \div 3) + (group - (group % 3)), (i % 3) + 3 * (group % 3) >>

\* Sudoku.rows: the field itself
rows(field) == field

\* Sudoku.columns: field.transpose()
columns(field) == [c \in Idx |-> [r \in Idx |-> field[r][c]]]

\* The loop nest of Sudoku.groups: the (i, j, k, l) in range(3)^4 whose
\* assignment writes groups[g][n], i.e. j + 3k = g and i + 3l = n
groups_loop ==
    [g \in Idx |-> [n \in Idx |->
        CHOOSE t \in Sub \X Sub \X Sub \X Sub :
            /\ t[2] + 3 * t[3] = g
            /\ t[1] + 3 * t[4] = n]]

\* Sudoku.groups: groups[j + 3k][i + 3l] = field[3k + l][i + 3j]
groups(field) ==
    [g \in Idx |-> [n \in Idx |->
        LET t == groups_loop[g][n]
        IN  field[3 * t[3] + t[4]][t[1] + 3 * t[2]]]]

\* set(row)
SetOf(row) == {row[n] : n \in DOMAIN row}

\* np.count_nonzero(row)
CountNonzero(row) == Cardinality({n \in DOMAIN row : row[n] # 0})

\* Sudoku.valid that checks the rows and the columns and not the groups
valid_without_groups(field) ==
    \A view \in {rows(field), columns(field)} :
        \A g \in Idx :
            LET row == view[g]
                zeros == Cardinality(DOMAIN row) - CountNonzero(row)
            IN  Cardinality(numbers \ SetOf(row)) = zeros

\* Sudoku.valid
valid(field) ==
    \A view \in {rows(field), columns(field), groups(field)} :
        \A g \in Idx :
            LET row == view[g]
                zeros == Cardinality(DOMAIN row) - CountNonzero(row)
            IN  Cardinality(numbers \ SetOf(row)) = zeros

\* Sudoku.filled
filled(field) ==
    Cardinality({p \in Idx \X Idx : field[p[1]][p[2]] # 0}) = Size * Size

\* The cells (i, j) of the groups view that the third loop of
\* get_possible_values maps to the cell (i2, j2) of the field
group_cells_of ==
    [i2 \in Idx |-> [j2 \in Idx |->
        {p \in Idx \X Idx :
            group_coordinate_to_row_coordinate(p[1], p[2]) = <<i2, j2>>}]]

\* missing_numbers = numbers - set(rows[i])
missing_numbers(row) == numbers \ SetOf(row)

\* get_possible_values, first loop: the rows
possible_values_rows(field) ==
    [i \in Idx |-> [j \in Idx |->
        IF rows(field)[i][j] = 0
        THEN numbers \cap missing_numbers(rows(field)[i])
        ELSE {}]]

\* get_possible_values, second loop: the columns
possible_values_cols(field, pv) ==
    LET cols == columns(field)
    IN  [j \in Idx |-> [i \in Idx |->
            IF Cardinality(missing_numbers(cols[i])) > 0 /\ cols[i][j] = 0
            THEN pv[j][i] \cap missing_numbers(cols[i])
            ELSE pv[j][i]]]

\* The intersection of pv with every set of the family S
IntersectAll(pv, S) == {v \in pv : \A m \in S : v \in m}

\* get_possible_values without its third loop
groups_loop_skipped(field, pv) == pv

\* get_possible_values, third loop: the groups
possible_values_groups(field, pv) ==
    LET grps == groups(field)
    IN  [i2 \in Idx |-> [j2 \in Idx |->
            IntersectAll(pv[i2][j2],
                {missing_numbers(grps[p[1]]) : p \in
                    {q \in group_cells_of[i2][j2] :
                        /\ Cardinality(missing_numbers(grps[q[1]])) > 0
                        /\ grps[q[1]][q[2]] = 0}})]]

\* Sudoku.get_possible_values
get_possible_values(field) ==
    possible_values_groups(field,
        possible_values_cols(field, possible_values_rows(field)))

\* One iteration of the while loop of solve_single_position: every empty
\* cell with a single possible value is filled with it (the values are
\* computed once, before the cells are visited)
single_position_pass(field) ==
    LET possible_values == get_possible_values(field)
    IN  [i \in Idx |-> [j \in Idx |->
            IF Cardinality(possible_values[i][j]) = 1 /\ field[i][j] = 0
            THEN CHOOSE v \in possible_values[i][j] : TRUE
            ELSE field[i][j]]]

\* min_possible_options without the filter len(pv[i][j]) > 0
min_with_empty_sets(possible_values) ==
    LET lens == {Cardinality(possible_values[p[1]][p[2]]) : p \in Idx \X Idx}
    IN  CHOOSE m \in lens : \A n \in lens : m <= n

\* solve: min(min(len(pv[i][j]) for j if len(pv[i][j]) > 0, default=20) for i)
min_possible_options(possible_values) ==
    LET lens == {Cardinality(possible_values[p[1]][p[2]]) : p \in Idx \X Idx}
                    \ {0}
    IN  IF lens = {} THEN NoOptions
        ELSE CHOOSE m \in lens : \A n \in lens : m <= n

\* solve: the first cell, in row-major order, whose number of options is the minimum
shortest_option(possible_values, m) ==
    LET hits == {p \in Idx \X Idx : Cardinality(possible_values[p[1]][p[2]]) = m}
    IN  CHOOSE p \in hits :
            \A q \in hits : p[1] < q[1] \/ (p[1] = q[1] /\ p[2] <= q[2])

(***************************************************************************)
(* The rules of the puzzle, stated on the cells without the code's views.  *)
(***************************************************************************)
Cells == Idx \X Idx

\* The other cells of the row, of the column and of the 3x3 block of a cell
Peers ==
    [p \in Cells |->
        {q \in Cells :
            /\ q # p
            /\ \/ q[1] = p[1]
               \/ q[2] = p[2]
               \/ /\ q[1] \div 3 = p[1] \div 3
                  /\ q[2] \div 3 = p[2] \div 3}]

At(f, p) == f[p[1]][p[2]]

\* No row, column or block holds a non-zero digit twice
NoDuplicates(f) ==
    \A p \in Cells : At(f, p) # 0 => \A q \in Peers[p] : At(f, q) # At(f, p)

\* The digits that occur neither in the row, nor in the column, nor in the block of p
Candidates(f, p) == {d \in numbers : \A q \in Peers[p] : At(f, q) # d}

EmptyCells(f) == {p \in Cells : At(f, p) = 0}

Empties(f) == Cardinality(EmptyCells(f))

\* g holds every digit that f holds, in the same cell
Extends(g, f) == \A p \in Cells : At(f, p) # 0 => At(g, p) = At(f, p)

\* The filled grids without duplicates that extend f, a grid without
\* duplicates whose empty cells are those of todo
RECURSIVE Fillings(_, _)
Fillings(f, todo) ==
    IF todo = {} THEN {f}
    ELSE LET p == CHOOSE c \in todo : TRUE
         IN  UNION {Fillings([f EXCEPT ![p[1]][p[2]] = d], todo \ {p}) :
                        d \in Candidates(f, p)}

\* The completions of a grid: the filled grids without duplicates that extend it
Completions(f) == IF NoDuplicates(f) THEN Fillings(f, EmptyCells(f)) ELSE {}

(***************************************************************************)
(* The input grids.                                                        *)
(***************************************************************************)
\* TestSudoku.INIT_FIELD
INIT_FIELD ==
    FromRows(<< <<8, 0, 0, 0, 1, 0, 6, 0, 9>>,
                <<0, 0, 1, 9, 7, 0, 0, 2, 0>>,
                <<9, 4, 0, 8, 2, 6, 3, 0, 1>>,
                <<0, 0, 4, 6, 0, 0, 0, 0, 0>>,
                <<0, 9, 0, 0, 0, 0, 1, 6, 0>>,
                <<5, 0, 6, 0, 3, 2, 9, 8, 0>>,
                <<4, 0, 0, 0, 5, 8, 7, 1, 0>>,
                <<6, 2, 0, 1, 0, 0, 5, 3, 0>>,
                <<0, 5, 8, 0, 0, 7, 4, 0, 2>> >>)

\* A puzzle with exactly one completion that solve_single_position alone
\* does not finish
UNIQUE_FIELD ==
    FromRows(<< <<8, 7, 2, 5, 1, 0, 6, 0, 9>>,
                <<0, 6, 1, 9, 7, 0, 8, 2, 5>>,
                <<9, 0, 5, 8, 2, 6, 0, 7, 1>>,
                <<7, 8, 4, 6, 9, 1, 2, 5, 3>>,
                <<2, 9, 3, 4, 8, 5, 1, 6, 7>>,
                <<5, 1, 6, 7, 3, 2, 9, 8, 4>>,
                <<0, 0, 9, 2, 5, 8, 0, 1, 6>>,
                <<0, 2, 7, 1, 0, 9, 5, 0, 8>>,
                <<1, 5, 8, 3, 0, 0, 0, 9, 2>> >>)

\* A grid without duplicates and without a completion, in which two empty
\* cells of a column, and two of a row, have the same single possible value
STALE_FIELD ==
    FromRows(<< <<8, 7, 2, 5, 1, 3, 6, 4, 9>>,
                <<3, 6, 1, 9, 7, 4, 8, 2, 5>>,
                <<9, 4, 5, 8, 2, 6, 3, 7, 1>>,
                <<7, 8, 4, 0, 9, 1, 2, 5, 3>>,
                <<2, 9, 3, 4, 8, 5, 1, 6, 7>>,
                <<5, 1, 6, 7, 3, 2, 9, 8, 4>>,
                <<4, 3, 9, 0, 5, 8, 7, 1, 2>>,
                <<6, 2, 7, 1, 4, 9, 5, 3, 8>>,
                <<1, 5, 8, 3, 0, 7, 4, 9, 0>> >>)

\* A filled grid without duplicates: the completion of UNIQUE_FIELD
SOLVED_FIELD ==
    FromRows(<< <<8, 7, 2, 5, 1, 3, 6, 4, 9>>,
                <<3, 6, 1, 9, 7, 4, 8, 2, 5>>,
                <<9, 4, 5, 8, 2, 6, 3, 7, 1>>,
                <<7, 8, 4, 6, 9, 1, 2, 5, 3>>,
                <<2, 9, 3, 4, 8, 5, 1, 6, 7>>,
                <<5, 1, 6, 7, 3, 2, 9, 8, 4>>,
                <<4, 3, 9, 2, 5, 8, 7, 1, 6>>,
                <<6, 2, 7, 1, 4, 9, 5, 3, 8>>,
                <<1, 5, 8, 3, 6, 7, 4, 9, 2>> >>)

Bases == {INIT_FIELD, UNIQUE_FIELD, STALE_FIELD, SOLVED_FIELD}

\* The most cells erased from a base grid
MaxErase == 2

\* The cells that may be erased
Pool == {<<0, 0>>, <<4, 4>>, <<8, 8>>, <<2, 5>>, <<6, 3>>}

\* The digits that may be written into a base grid, each with its cell
Writes == {<<6, 8, 2>>, <<6, 8, 7>>}

Erase(field, cells) ==
    [r \in Idx |-> [c \in Idx |-> IF <<r, c>> \in cells THEN 0 ELSE field[r][c]]]

Write(field, w) ==
    IF w = None THEN field ELSE [field EXCEPT ![w[1]][w[2]] = w[3]]

\* A base grid, at most one digit written into it, at most MaxErase cells erased
Inputs ==
    {Erase(Write(b, w), e) :
        b \in Bases, w \in Writes \cup {None},
        e \in {s \in SUBSET Pool : Cardinality(s) <= MaxErase}}

(***************************************************************************)
(* The state: the stack of active solve() calls, the innermost last.  Two  *)
(* history variables never change: the grid solve() was first called on    *)
(* and the set of its completions under the rules of the puzzle.           *)
(***************************************************************************)
VARIABLES stack, input, completions

vars == << stack, input, completions >>

\* The frame of a call of solve() on a Sudoku object holding `field`
NewFrame(field) ==
    [ field      |-> field,         \* self.field
      pc         |-> "single",      \* where the call stands
      old_fields |-> None,          \* solve_single_position: old_fields
      options    |-> {},            \* solve: possible_values[x][y], as popped so far
      x          |-> 0,             \* solve: x
      y          |-> 0,             \* solve: y
      n          |-> 0,             \* solve: min_possible_options
      i          |-> 0,             \* solve: i of the last loop
      entry      |-> field,         \* history: the grid at the call
      single     |-> None,          \* history: the grid solve_single_position left
      passes     |-> 0,             \* history: iterations of the while loop
      adopted    |-> FALSE ]        \* history: the call took a child's grid

Top == stack[Len(stack)]

SetTop(frame) == [stack EXCEPT ![Len(stack)] = frame]

Init ==
    /\ input \in Inputs
    /\ completions = Completions(input)
    /\ stack = << NewFrame(input) >>

\* solve_single_position with an if in place of the while
loop_once(old_fields, field) == old_fields = None

\* solve_single_position: while old_fields is None or not np.array_equal(old_fields, self.field)
loop_continues(old_fields, field) == old_fields = None \/ old_fields # field

\* solve_single_position, from the state (old_fields, field) of its while loop
\* to the grid it returns with
RECURSIVE single_position_loop(_, _)
single_position_loop(old_fields, field) ==
    IF loop_continues(old_fields, field)
    THEN single_position_loop(field, single_position_pass(field))
    ELSE field

\* Sudoku.solve_single_position
solve_single_position(field) == single_position_loop(None, field)

\* solve_single_position: one iteration of the while loop
SinglePass ==
    /\ Top.pc = "single"
    /\ loop_continues(Top.old_fields, Top.field)
    /\ stack' = SetTop([Top EXCEPT !.old_fields = Top.field,
                                   !.field = single_position_pass(Top.field),
                                   !.passes = @ + 1])
    /\ UNCHANGED << input, completions >>

\* solve_single_position: the while condition fails and the function returns
SingleReturn ==
    /\ Top.pc = "single"
    /\ ~loop_continues(Top.old_fields, Top.field)
    /\ stack' = SetTop([Top EXCEPT !.pc = "solve", !.single = Top.field])
    /\ UNCHANGED << input, completions >>

\* solve: the grid is filled after solve_single_position
SolveFilled ==
    /\ Top.pc = "solve"
    /\ filled(Top.field)
    /\ stack' = SetTop([Top EXCEPT !.pc = "return"])
    /\ UNCHANGED << input, completions >>

\* solve: no cell has options left (min_possible_options == 20)
SolveNoOptions ==
    /\ Top.pc = "solve"
    /\ ~filled(Top.field)
    /\ min_possible_options(get_possible_values(Top.field)) = NoOptions
    /\ stack' = SetTop([Top EXCEPT !.pc = "return", !.n = NoOptions])
    /\ UNCHANGED << input, completions >>

\* solve: the search for the shortest option
SolveSelect ==
    /\ Top.pc = "solve"
    /\ ~filled(Top.field)
    /\ LET possible_values == get_possible_values(Top.field)
           m == min_possible_options(possible_values)
           p == shortest_option(possible_values, m)
       IN  /\ m # NoOptions
           /\ stack' = SetTop([Top EXCEPT !.pc = "try", !.n = m, !.i = 0,
                                          !.x = p[1], !.y = p[2],
                                          !.options = possible_values[p[1]][p[2]]])
    /\ UNCHANGED << input, completions >>

\* solve without np.copy: the copy shares the caller's array
place_without_copy(field, x, y, v) ==
    [ self |-> [field EXCEPT ![x][y] = v], sudoku_copy |-> [field EXCEPT ![x][y] = v] ]

\* solve without the placement: the copy is the caller's grid
copy_without_place(field, x, y, v) ==
    [ self |-> field, sudoku_copy |-> field ]

\* solve with the placement at [y][x]
place_transposed(field, x, y, v) ==
    [ self |-> field, sudoku_copy |-> [field EXCEPT ![y][x] = v] ]

\* solve: sudoku_copy = Sudoku(np.copy(self.field)); sudoku_copy.field[x][y] = v:
\* the grids of the caller and of the copy after the two statements
copy_and_place(field, x, y, v) ==
    [ self |-> field, sudoku_copy |-> [field EXCEPT ![x][y] = v] ]

\* solve: one iteration of the last loop up to the recursive call; set.pop()
\* takes an arbitrary element
SolveTry ==
    /\ Top.pc = "try"
    /\ Top.i < Top.n
    /\ \E v \in Top.options :
          LET grids == copy_and_place(Top.field, Top.x, Top.y, v)
          IN  stack' = Append(SetTop([Top EXCEPT !.pc = "call",
                                                 !.field = grids.self,
                                                 !.options = @ \ {v}]),
                              NewFrame(grids.sudoku_copy))
    /\ UNCHANGED << input, completions >>

\* solve: whether the caller accepts the grid of the copy
accepts(field) == filled(field) /\ valid(field)

\* solve: the recursive call returned a filled and valid grid, which is taken
SolveAdopt ==
    /\ Len(stack) > 1
    /\ Top.pc = "return"
    /\ accepts(Top.field)
    /\ LET caller == stack[Len(stack) - 1]
       IN  stack' = [SubSeq(stack, 1, Len(stack) - 1) EXCEPT ![Len(stack) - 1] =
                        [caller EXCEPT !.pc = "return", !.field = Top.field,
                                       !.adopted = TRUE]]
    /\ UNCHANGED << input, completions >>

\* solve: the recursive call returned a grid that is not taken
SolveReject ==
    /\ Len(stack) > 1
    /\ Top.pc = "return"
    /\ ~accepts(Top.field)
    /\ LET caller == stack[Len(stack) - 1]
       IN  stack' = [SubSeq(stack, 1, Len(stack) - 1) EXCEPT ![Len(stack) - 1] =
                        [caller EXCEPT !.pc = "try", !.i = @ + 1]]
    /\ UNCHANGED << input, completions >>

\* solve: the last loop ends without a grid taken
SolveExhausted ==
    /\ Top.pc = "try"
    /\ Top.i >= Top.n
    /\ stack' = SetTop([Top EXCEPT !.pc = "return"])
    /\ UNCHANGED << input, completions >>

Next ==
    \/ SinglePass
    \/ SingleReturn
    \/ SolveFilled
    \/ SolveNoOptions
    \/ SolveSelect
    \/ SolveTry
    \/ SolveAdopt
    \/ SolveReject
    \/ SolveExhausted

Spec == Init /\ [][Next]_vars

\* The first call of solve() has returned
Done == Len(stack) = 1 /\ Top.pc = "return"

Frames == {stack[d] : d \in 1 .. Len(stack)}

(***************************************************************************)
(* Termination.  Every frame has a rank, a number that each step of its    *)
(* call lowers; a step changes the rank of one frame, the innermost or,    *)
(* when a call returns, its caller's.  The ranks of the stack, outermost   *)
(* first, therefore fall in the lexicographic order at every step; ranks   *)
(* are bounded and the stack is no deeper than the input has empty cells,  *)
(* so no run is infinite.                                                  *)
(***************************************************************************)
FrameRank(fr) ==
    CASE fr.pc = "single" ->
             2 * Size + 4 + 2 * Empties(fr.field)
                 + (IF fr.old_fields = None \/ fr.old_fields # fr.field THEN 1 ELSE 0)
      [] fr.pc = "solve"  -> 2 * Size + 3
      [] fr.pc = "call"   -> 2 * Cardinality(fr.options) + 2
      [] fr.pc = "try"    -> 2 * (fr.n - fr.i) + 1
      [] fr.pc = "return" -> 0

\* The ranks of the stack t come before those of the stack s
RankFalls(s, t) ==
    \E k \in 1 .. Len(s) :
        /\ k <= Len(t)
        /\ FrameRank(t[k]) < FrameRank(s[k])
        /\ \A j \in 1 .. (k - 1) : t[j] = s[j]

\* The guards of the steps: a step can be taken
CanStep ==
    \/ Top.pc = "single"
    \/ Top.pc = "solve"
    \/ Top.pc = "try" /\ (Top.i >= Top.n \/ Top.options # {})
    \/ Top.pc = "return" /\ Len(stack) > 1

\* A call that has not returned can take a step
Progress == Done \/ CanStep

\* The grid the first call returns with, when the input has exactly one completion
C1_Solved ==
    Done /\ Cardinality(completions) = 1 =>
        /\ filled(Top.field)
        /\ valid(Top.field)
        /\ Top.field \in completions

\* A step on an input with exactly one completion lowers the ranks of the stack
C1_Terminates ==
    Cardinality(completions) = 1 => RankFalls(stack, stack')

(***************************************************************************)
(* C1: for every input grid without duplicates that has exactly one       *)
(* completion, solve() returns, and the grid is then filled, valid and     *)
(* equal to that completion.                                               *)
(***************************************************************************)
C1_UniqueSolved ==
    /\ [] C1_Solved
    /\ [] (Cardinality(completions) = 1 => Progress)
    /\ [][C1_Terminates]_vars

\* solve() returned on an input with exactly one completion, which
\* solve_single_position alone did not reach: the grid was taken from a copy
C1_Witness ==
    /\ Done
    /\ Cardinality(completions) = 1
    /\ Top.adopted
    /\ Top.i >= 1
    /\ Top.field \in completions

(***************************************************************************)
(* C2: for every grid without duplicates, the grid is still valid when     *)
(* solve_single_position returns.                                          *)
(***************************************************************************)
C2_PropagationKeepsValid ==
    Top.pc = "solve" /\ NoDuplicates(Top.entry) => valid(Top.field)

(***************************************************************************)
(* C3: for every input grid without duplicates, solve() never returns     *)
(* with a grid that is filled but not valid.                               *)
(***************************************************************************)
C3_SolvedOrExhausted ==
    Done /\ NoDuplicates(input) => (filled(Top.field) => valid(Top.field))

(***************************************************************************)
(* C4: when solve_single_position returns, no empty cell has exactly one  *)
(* candidate, and solve_single_position run again on the grid changes no   *)
(* cell.                                                                   *)
(***************************************************************************)
C4_FixedPoint ==
    Top.pc = "solve" =>
        /\ \A p \in EmptyCells(Top.field) :
               Cardinality(Candidates(Top.field, p)) # 1
        /\ solve_single_position(Top.field) = Top.field

\* solve_single_position returned after three iterations or more, leaving
\* empty cells, one of them with two candidates or more
C4_Witness ==
    /\ Top.pc = "solve"
    /\ Top.passes >= 3
    /\ \E p \in EmptyCells(Top.field) : Cardinality(Candidates(Top.field, p)) >= 2
    /\ solve_single_position(Top.field) = Top.field

(***************************************************************************)
(* C5: valid is true exactly when no row, column or block holds a non-zero*)
(* digit twice; writing into a valid grid a digit that another cell of the *)
(* written cell's row, column or block holds makes valid false.            *)
(***************************************************************************)
C5_ValidIffNoDuplicates ==
    /\ valid(Top.field) <=> NoDuplicates(Top.field)
    /\ Top.passes = 0 /\ valid(Top.field) =>
           \A p \in Cells : \A d \in {At(Top.field, q) : q \in Peers[p]} \ {0} :
               ~valid([Top.field EXCEPT ![p[1]][p[2]] = d])

\* The digit d is held by a cell of the block of p and by no cell of its row or column
OnlyInBlock(f, p, d) ==
    /\ \E q \in Peers[p] : At(f, q) = d
    /\ \A q \in Peers[p] : At(f, q) = d => q[1] # p[1] /\ q[2] # p[2]

\* solve() is called on a valid grid with empty cells that stops being valid
\* when a digit held only by the block of a cell is written into the cell
C5_Witness ==
    /\ Top.passes = 0
    /\ valid(Top.field)
    /\ EmptyCells(Top.field) # {}
    /\ \E p \in Cells : \E d \in numbers :
           /\ OnlyInBlock(Top.field, p, d)
           /\ ~valid([Top.field EXCEPT ![p[1]][p[2]] = d])

\* The mapping is the stated formula, into the cells, and each cell is the image of
\* exactly one pair
C6_Bijection ==
    /\ \A g \in Idx : \A i \in Idx :
           /\ group_coordinate_to_row_coordinate(g, i) =
                  << (i \div 3) + 3 * (g \div 3), (i % 3) + 3 * (g % 3) >>
           /\ group_coordinate_to_row_coordinate(g, i) \in Cells
    /\ \A p \in Cells :
           Cardinality({q \in Idx \X Idx :
               group_coordinate_to_row_coordinate(q[1], q[2]) = p}) = 1

(***************************************************************************)
(* C6: group_coordinate_to_row_coordinate(g, i) is                         *)
(* (i/3 + 3*(g/3), i%3 + 3*(g%3)), a bijection from the 81 pairs (g, i)    *)
(* onto the 81 cells, and groups[g][i] is the field at that cell.          *)
(***************************************************************************)
C6_GroupCoordinates ==
    /\ C6_Bijection
    /\ \A g \in Idx : \A i \in Idx :
           groups(Top.field)[g][i] =
               At(Top.field, group_coordinate_to_row_coordinate(g, i))

\* The groups view of a grid differs from its rows view where the two read
\* different cells: groups[6][4] is the digit of cell (7, 1), not of (6, 4)
C6_Witness ==
    /\ group_coordinate_to_row_coordinate(6, 4) = <<7, 1>>
    /\ groups(Top.field)[6][4] = Top.field[7][1]
    /\ Top.field[7][1] # 0
    /\ Top.field[7][1] # Top.field[6][4]

(***************************************************************************)
(* C7: get_possible_values gives every empty cell exactly the digits that *)
(* occur neither in its row, nor in its column, nor in its block, and      *)
(* every filled cell the empty set.                                        *)
(***************************************************************************)
C7_PossibleValues ==
    \A p \in Cells :
        At(get_possible_values(Top.field), p) =
            IF At(Top.field, p) = 0 THEN Candidates(Top.field, p) ELSE {}

\* An empty cell loses a candidate to its block alone, and another empty cell
\* to its column alone
C7_Witness ==
    /\ \E p \in EmptyCells(Top.field) : \E d \in numbers :
           /\ OnlyInBlock(Top.field, p, d)
           /\ d \notin At(get_possible_values(Top.field), p)
    /\ \E p \in EmptyCells(Top.field) : \E d \in numbers :
           /\ \E q \in Peers[p] : At(Top.field, q) = d
           /\ \A q \in Peers[p] : At(Top.field, q) = d =>
                  q[2] = p[2] /\ q[1] \div 3 # p[1] \div 3
           /\ d \notin At(get_possible_values(Top.field), p)
    /\ \E p \in Cells : At(Top.field, p) # 0 /\ At(get_possible_values(Top.field), p) = {}

\* The bounds on the loop, on the empty cells of a copy and on the depth
C8_Bounds ==
    /\ Top.pc = "single" /\ Top.old_fields # None /\ Top.old_fields # Top.field =>
           Empties(Top.field) < Empties(Top.old_fields)
    /\ \A fr \in Frames :
           /\ fr.passes <= Empties(fr.entry) + 1
           /\ fr.passes <= Size * Size
    /\ \A d \in 2 .. Len(stack) :
           /\ Empties(stack[d].entry) < Empties(stack[d - 1].field)
           /\ Empties(stack[d - 1].field) <= Empties(stack[d - 1].entry)
    /\ Len(stack) - 1 <= Empties(input)

\* A step lowers the ranks of the stack; an iteration that leaves the loop running
\* has filled a cell
C8_Step ==
    /\ RankFalls(stack, stack')
    /\ Top.pc = "single" /\ Top'.pc = "single" /\ Top'.old_fields # Top'.field =>
           Empties(Top'.field) < Empties(Top.field)

(***************************************************************************)
(* C8: solve() terminates: an iteration of the loop of                     *)
(* solve_single_position that is followed by another has filled a cell,    *)
(* the loop runs at most 81 times, a recursive call runs on a grid with    *)
(* fewer empty cells than its caller's, and the depth of the recursion is  *)
(* at most the number of empty cells of the input.                         *)
(***************************************************************************)
C8_Terminates ==
    /\ [] C8_Bounds
    /\ [] Progress
    /\ [][C8_Step]_vars

\* A call two levels below the first has run its loop three times or more
C8_Witness ==
    /\ Len(stack) >= 3
    /\ Top.pc = "solve"
    /\ Top.passes >= 3
    /\ Empties(Top.field) < Empties(Top.entry)

\* A step keeps the grid of a call in its last loop, or replaces it by the filled
\* grid without duplicates of the copy that returns
C9_Step ==
    \A d \in 1 .. Len(stack) :
        stack[d].pc \in {"try", "call"} =>
            /\ d <= Len(stack')
            /\ \/ stack'[d].field = stack[d].field
               \/ /\ stack[d].pc = "call"
                  /\ Len(stack) = d + 1
                  /\ Len(stack') = d
                  /\ filled(Top.field)
                  /\ NoDuplicates(Top.field)
                  /\ stack'[d].field = Top.field

\* The grid of a call in its last loop, and of a call that returns
C9_State ==
    \A fr \in Frames :
        /\ fr.pc \in {"try", "call"} => fr.field = fr.single
        /\ fr.pc = "return" =>
               \/ fr.field = fr.single
               \/ fr.adopted /\ filled(fr.field) /\ NoDuplicates(fr.field)

(***************************************************************************)
(* C9: a recursive call never changes its caller's grid: during the last   *)
(* loop of solve() the grid is the one solve_single_position left, it      *)
(* changes only by taking the filled and valid grid of a copy, and a call  *)
(* that takes no grid returns with the grid solve_single_position left.    *)
(***************************************************************************)
C9_CallerGridKept == [] C9_State /\ [][C9_Step]_vars

\* A call returns because no cell has options, under a caller that has
\* already dropped the grid of one copy and still holds the grid
\* solve_single_position left
C9_Witness ==
    /\ Len(stack) >= 2
    /\ Top.pc = "return"
    /\ Top.n = NoOptions
    /\ Top.field = Top.single
    /\ stack[Len(stack) - 1].i >= 1
    /\ stack[Len(stack) - 1].field = stack[Len(stack) - 1].single

\* Every grid holds the digits of the input and of the grid its call began with
C10_State ==
    \A fr \in Frames :
        /\ Extends(fr.entry, input)
        /\ Extends(fr.field, fr.entry)
        /\ Extends(fr.field, input)

\* A step keeps every digit of every grid that stays on the stack
C10_Step ==
    \A d \in 1 .. Len(stack) :
        d <= Len(stack') =>
            /\ Extends(stack'[d].field, stack[d].field)
            /\ Empties(stack'[d].field) <= Empties(stack[d].field)

(***************************************************************************)
(* C10: the digits given are never overwritten: every grid of every call   *)
(* holds the digits of the input grid, a cell once filled in a call's grid *)
(* keeps its digit, and the number of empty cells of a call's grid never   *)
(* increases.                                                              *)
(***************************************************************************)
C10_GivenDigitsKept == [] C10_State /\ [][C10_Step]_vars

\* The first call returns with the grid of a copy: digits were filled by
\* solve_single_position, by the placement of an option and by the copy
C10_Witness ==
    /\ Done
    /\ Top.adopted
    /\ Empties(input) > Empties(Top.single)
    /\ Empties(Top.single) > 1
    /\ filled(Top.field)
    /\ Extends(Top.field, input)

=============================================================================
